---- MODULE Spec2Model ----
EXTENDS Integers, Naturals, Sequences, FiniteSets, TLC

\* Depth reconciliation engine of binance_md: N depth ingestors, the event
\* buffer drain, the order book, the instrument state and the monitor /
\* recovery task, with the three tokio RwLocks (buffer, book, state) taken
\* step by step as the code takes them.

\* ---------------------------------------------------------------- bounds
NumUpdates == 2
NumConn == 2
MaxDeliveries == 2
MaxWakes == 1
PMaxId == 2
MaxIngests == 6

\* ------------------------------------------------------ exchange stream
\* The exchange emits sequence ids 1..MaxSeq; websocket event k covers the
\* ids FirstId(k)..LastId(k); every id mutates one level of one side.
MaxSeq == 2 * NumUpdates
UpdateIds == 1..NumUpdates
FirstId(k) == 2 * k - 1
LastId(k) == 2 * k
MutSide(i) == IF i % 2 = 1 THEN "bid" ELSE "ask"
MutPrice(i) == IF i % 2 = 1 THEN 1 + ((i \div 2) % 2) ELSE 3 + ((i \div 2) % 2)
MutQty(i) == i % 3
PairsOf(lo, hi, side) ==
  LET ids == SelectSeq([j \in 1..(hi - lo + 1) |-> lo + j - 1],
                       LAMBDA i : MutSide(i) = side)
  IN [j \in 1..Len(ids) |-> <<MutPrice(ids[j]), MutQty(ids[j])>>]
\* OrderBookUpdate { first_trade_id, last_trade_id, bids, asks }
Update(k) == [first_trade_id |-> FirstId(k), last_trade_id |-> LastId(k),
              bids |-> PairsOf(FirstId(k), LastId(k), "bid"),
              asks |-> PairsOf(FirstId(k), LastId(k), "ask")]

\* ------------------------------------------------------------ order book
EmptyMap == [p \in {} |-> 0]
Insert(m, p, q) == [x \in DOMAIN m \cup {p} |-> IF x = p THEN q ELSE m[x]]
Remove(m, p) == [x \in DOMAIN m \ {p} |-> m[x]]

RECURSIVE ApplyLevelsKeepZero(_, _)
ApplyLevelsKeepZero(m, pairs) ==
  IF pairs = <<>> THEN m
  ELSE ApplyLevelsKeepZero(Insert(m, Head(pairs)[1], Head(pairs)[2]), Tail(pairs))

\* the per-level loop of apply_update: qty 0 removes, otherwise upsert
RECURSIVE ApplyLevels(_, _)
ApplyLevels(m, pairs) ==
  IF pairs = <<>> THEN m
  ELSE LET p == Head(pairs)[1]
           q == Head(pairs)[2]
       IN ApplyLevels(IF q = 0 THEN Remove(m, p) ELSE Insert(m, p, q), Tail(pairs))

\* the per-level loop of apply_snapshot: every line is inserted
RECURSIVE InsertLevels(_, _)
InsertLevels(m, pairs) ==
  IF pairs = <<>> THEN m
  ELSE InsertLevels(Insert(m, Head(pairs)[1], Head(pairs)[2]), Tail(pairs))

NewBook == [bids |-> EmptyMap, asks |-> EmptyMap, last_applied_id |-> 0]

ApplyUpdateNoStaleCheck(b, u) ==
  IF u.first_trade_id > b.last_applied_id + 1
    THEN [book |-> b, res |-> "gap", width |-> u.first_trade_id - b.last_applied_id]
  ELSE [book |-> [bids |-> ApplyLevels(b.bids, u.bids),
                  asks |-> ApplyLevels(b.asks, u.asks),
                  last_applied_id |-> u.last_trade_id],
        res |-> "ok", width |-> 0]

ApplyUpdateNoGapCheck(b, u) ==
  IF u.last_trade_id <= b.last_applied_id
    THEN [book |-> b, res |-> "ok", width |-> 0]
  ELSE [book |-> [bids |-> ApplyLevels(b.bids, u.bids),
                  asks |-> ApplyLevels(b.asks, u.asks),
                  last_applied_id |-> u.last_trade_id],
        res |-> "ok", width |-> 0]

\* OrderBook::apply_update: the new book, the result ("ok" or "gap") and
\* the number the gap error carries (first_trade_id - last_applied_id)
ApplyUpdate(b, u) ==
  IF u.last_trade_id <= b.last_applied_id
    THEN [book |-> b, res |-> "ok", width |-> 0]
  ELSE IF u.first_trade_id > b.last_applied_id + 1
    THEN [book |-> b, res |-> "gap", width |-> u.first_trade_id - b.last_applied_id]
  ELSE [book |-> [bids |-> ApplyLevels(b.bids, u.bids),
                  asks |-> ApplyLevels(b.asks, u.asks),
                  last_applied_id |-> u.last_trade_id],
        res |-> "ok", width |-> 0]

ApplySnapshotKeepCursor(b, s) ==
  [bids |-> InsertLevels(EmptyMap, s.bids),
   asks |-> InsertLevels(EmptyMap, s.asks),
   last_applied_id |-> b.last_applied_id]

\* OrderBook::apply_snapshot
ApplySnapshot(b, s) ==
  [bids |-> InsertLevels(EmptyMap, s.bids),
   asks |-> InsertLevels(EmptyMap, s.asks),
   last_applied_id |-> s.last_update_id]

\* the exchange's book after ids 1..n, the content of a REST snapshot at n
RECURSIVE RefBook(_)
RefBook(n) ==
  IF n = 0 THEN NewBook
  ELSE LET b == RefBook(n - 1)
           pr == <<<<MutPrice(n), MutQty(n)>>>>
       IN IF MutSide(n) = "bid"
            THEN [b EXCEPT !.bids = ApplyLevels(b.bids, pr), !.last_applied_id = n]
            ELSE [b EXCEPT !.asks = ApplyLevels(b.asks, pr), !.last_applied_id = n]

MapPairs(m) ==
  LET ps == CHOOSE s \in [1..Cardinality(DOMAIN m) -> DOMAIN m] :
              \A i, j \in DOMAIN s : i < j => s[i] < s[j]
  IN [j \in DOMAIN ps |-> <<ps[j], m[ps[j]]>>]

\* a bid price the exchange never holds, sent as a zero-qty snapshot line
ZeroLinePrices == {2}

\* Snapshot { last_update_id, bids, asks } as served at sequence n
Snapshot(n, zero) ==
  [last_update_id |-> n,
   bids |-> MapPairs(RefBook(n).bids) \o
            (IF zero THEN [j \in 1..1 |-> <<CHOOSE p \in ZeroLinePrices : TRUE, 0>>]
                     ELSE <<>>),
   asks |-> MapPairs(RefBook(n).asks),
   bad |-> 0]

\* the same body as JSON whose line j (bids first, then asks) carries a
\* price or qty string that is no decimal number: Vec<[String; 2]> still
\* deserializes it, and only apply_snapshot's parse().unwrap() rejects it
MalformedSnapshot(n, zero, j) == [Snapshot(n, zero) EXCEPT !.bad = j]

\* apply_snapshot up to the panic at the malformed line s.bad: the cursor
\* is set and both sides are cleared, the lines before it are inserted
ApplySnapshotUntilPanic(b, s) ==
  LET nb == Len(s.bids)
  IN [bids |-> InsertLevels(EmptyMap, SubSeq(s.bids, 1, IF s.bad <= nb THEN s.bad - 1 ELSE nb)),
      asks |-> IF s.bad <= nb THEN EmptyMap
               ELSE InsertLevels(EmptyMap, SubSeq(s.asks, 1, s.bad - nb - 1)),
      last_applied_id |-> s.last_update_id]

\* --------------------------------------------------------------- tasks
Ingestors == 1..NumConn
Recovery == 0
Tasks == Ingestors \cup {Recovery}
NoTask == -1
States == {"Normal", "Recovering", "JustRecovered", "JustStarted"}

VARIABLES
  exch,        \* last sequence id produced by the exchange
  pc,          \* position of each task
  upd,         \* update a task is carrying (delivered or popped), 0 if none
  ebH, obH, stH, \* holders of the buffer, book and state write locks
  buffer,      \* EventBuffer heap as a bag: update index -> copies
  book,        \* OrderBook
  state,       \* InstrumentState
  resetSince,  \* TimeoutState reset since the monitor went to sleep
  snap,        \* snapshot fetched by the recovery task
  delivered, wakes,
  snapWin,     \* snapshot applied, recovery's first drain iteration not yet run
  appliedLast, \* last_trade_id of the last apply_update that changed the book
  lastApply,   \* each task's last apply_update: event, prior cursor, result
  sinceSnap,   \* events that changed the book since the last apply_snapshot
  drainPops,   \* first_trade_ids popped for applying in each task's current drain
  lastRec,     \* outcome of the last snapshot fetch: "none", "ok", "fail"
               \* or "malformed" (a line that is no decimal number)
  pv           \* inputs and results of the single-operation specifications

vars == <<exch, pc, upd, ebH, obH, stH, buffer, book, state, resetSince,
          snap, delivered, wakes, snapWin, appliedLast, lastApply,
          sinceSnap, drainPops, lastRec, pv>>

InitSys ==
  /\ exch = 0
  /\ pc = [t \in Tasks |-> IF t = Recovery THEN "m_start" ELSE "idle"]
  /\ upd = [t \in Tasks |-> 0]
  /\ ebH = NoTask /\ obH = NoTask /\ stH = NoTask
  /\ buffer = [k \in UpdateIds |-> 0]
  /\ book = NewBook
  /\ state = "JustStarted"
  /\ resetSince = FALSE
  /\ snap = [last_update_id |-> 0, bids |-> <<>>, asks |-> <<>>, bad |-> 0]
  /\ delivered = 0 /\ wakes = 0
  /\ snapWin = FALSE
  /\ appliedLast = 0
  /\ lastApply = [t \in Tasks |-> [k |-> 0, pre |-> 0, res |-> "none"]]
  /\ sinceSnap = {}
  /\ drainPops = [t \in Tasks |-> <<>>]
  /\ lastRec = "none"

Init == InitSys /\ pv = "none"

\* the exchange publishes the next sequence id
Produce ==
  /\ exch < MaxSeq
  /\ exch' = exch + 1
  /\ UNCHANGED <<pc, upd, ebH, obH, stH, buffer, book, state, resetSince,
                 snap, delivered, wakes, snapWin, appliedLast, lastApply,
                 sinceSnap, drainPops, lastRec, pv>>

\* start_depth_feed: a text frame parsed as event k arrives on connection i
\* (any published event, any number of times, in any order)
Deliver(i) ==
  /\ pc[i] = "idle"
  /\ delivered < MaxDeliveries
  /\ \E k \in UpdateIds :
       /\ LastId(k) <= exch
       /\ upd' = [upd EXCEPT ![i] = k]
  /\ pc' = [pc EXCEPT ![i] = "wEB"]
  /\ delivered' = delivered + 1
  /\ UNCHANGED <<exch, ebH, obH, stH, buffer, book, state, resetSince,
                 snap, wakes, snapWin, appliedLast, lastApply,
                 sinceSnap, drainPops, lastRec, pv>>

\* handle_update: event_buffer.write(), then buffer_and_process_update pushes
BufferUpdate(i) ==
  /\ pc[i] = "wEB"
  /\ ebH = NoTask
  /\ ebH' = i
  /\ buffer' = [buffer EXCEPT ![upd[i]] = @ + 1]
  /\ upd' = [upd EXCEPT ![i] = 0]
  /\ pc' = [pc EXCEPT ![i] = "d_wST"]
  /\ drainPops' = [drainPops EXCEPT ![i] = <<>>]
  /\ UNCHANGED <<exch, obH, stH, book, state, resetSince, snap, delivered,
                 wakes, snapWin, appliedLast, lastApply,
                 sinceSnap, lastRec, pv>>

\* process_buffered_updates, one loop iteration: state.write()
DrainLockState(t) ==
  /\ pc[t] = "d_wST"
  /\ stH = NoTask
  /\ stH' = t
  /\ pc' = [pc EXCEPT ![t] = "d_wOB"]
  /\ UNCHANGED <<exch, upd, ebH, obH, buffer, book, state, resetSince, snap,
                 delivered, wakes, snapWin, appliedLast, lastApply,
                 sinceSnap, drainPops, lastRec, pv>>

HeapPeekMax(bf) == CHOOSE k \in UpdateIds : bf[k] > 0 /\ \A j \in UpdateIds : bf[j] > 0 => k >= j

\* BinaryHeap::peek with the reversed first_trade_id ordering: the minimum
HeapEmpty(bf) == \A k \in UpdateIds : bf[k] = 0
HeapPeek(bf) == CHOOSE k \in UpdateIds : bf[k] > 0 /\ \A j \in UpdateIds : bf[j] > 0 => k <= j
HeapPop(bf) == [bf EXCEPT ![HeapPeek(bf)] = @ - 1]

DrainDecisionFutureDiscard(st, b, bf) ==
  IF HeapEmpty(bf) THEN "stop"
  ELSE LET u == Update(HeapPeek(bf))
       IN IF st = "JustRecovered"
            THEN IF u.first_trade_id <= b.last_applied_id + 1
                    /\ u.last_trade_id >= b.last_applied_id + 1 THEN "apply"
                 ELSE "discard"
            ELSE IF u.first_trade_id = b.last_applied_id + 1 THEN "apply"
                 ELSE "discard"

DrainDecisionKeepOutdated(st, b, bf) ==
  IF HeapEmpty(bf) THEN "stop"
  ELSE LET u == Update(HeapPeek(bf))
       IN IF st = "JustRecovered"
            THEN IF u.first_trade_id <= b.last_applied_id + 1
                    /\ u.last_trade_id >= b.last_applied_id + 1 THEN "apply"
                 ELSE IF u.first_trade_id > b.last_applied_id + 1 THEN "stop"
                 ELSE "discard"
            ELSE IF u.first_trade_id = b.last_applied_id + 1 THEN "apply"
                 ELSE "stop"

\* the decision table of one drain iteration, taken under the state and book
\* locks: "apply" (pop, then apply), "discard" (pop) or "stop"
DrainDecision(st, b, bf) ==
  IF HeapEmpty(bf) THEN "stop"
  ELSE LET u == Update(HeapPeek(bf))
       IN IF st = "JustRecovered"
            THEN IF u.first_trade_id <= b.last_applied_id + 1
                    /\ u.last_trade_id >= b.last_applied_id + 1 THEN "apply"
                 ELSE IF u.first_trade_id > b.last_applied_id + 1 THEN "stop"
                 ELSE "discard"
            ELSE IF u.first_trade_id = b.last_applied_id + 1 THEN "apply"
                 ELSE IF u.first_trade_id > b.last_applied_id + 1 THEN "stop"
                 ELSE "discard"

\* where a task goes once its drain returns and the buffer guard is dropped
AfterDrain(t) == IF t = Recovery THEN "r_wST3" ELSE "idle"

DrainStepSetsNormal(t) ==
  /\ pc[t] = "d_wOB"
  /\ obH = NoTask
  /\ stH' = NoTask
  /\ LET d == DrainDecision(state, book, buffer)
     IN /\ IF d = "stop"
             THEN /\ pc' = [pc EXCEPT ![t] = AfterDrain(t)]
                  /\ ebH' = NoTask
                  /\ UNCHANGED <<buffer, upd, drainPops>>
           ELSE IF d = "discard"
             THEN /\ buffer' = HeapPop(buffer)
                  /\ pc' = [pc EXCEPT ![t] = "d_wST"]
                  /\ UNCHANGED <<ebH, upd, drainPops>>
           ELSE /\ buffer' = HeapPop(buffer)
                /\ upd' = [upd EXCEPT ![t] = HeapPeek(buffer)]
                /\ pc' = [pc EXCEPT ![t] = "d_apply"]
                /\ drainPops' = [drainPops EXCEPT ![t] = Append(@, Update(HeapPeek(buffer)).first_trade_id)]
                /\ UNCHANGED ebH
        /\ state' = IF d = "apply" THEN "Normal" ELSE state
  /\ snapWin' = IF t = Recovery THEN FALSE ELSE snapWin
  /\ UNCHANGED <<exch, obH, book, resetSince, snap, delivered, wakes,
                 appliedLast, lastApply,
                 sinceSnap, lastRec, pv>>

\* order_book.write() and the body of the iteration; both guards drop at the
\* end of the block
DrainStep(t) ==
  /\ pc[t] = "d_wOB"
  /\ obH = NoTask
  /\ stH' = NoTask
  /\ LET d == DrainDecision(state, book, buffer)
     IN /\ IF d = "stop"
             THEN /\ pc' = [pc EXCEPT ![t] = AfterDrain(t)]
                  /\ ebH' = NoTask
                  /\ UNCHANGED <<buffer, upd, drainPops>>
           ELSE IF d = "discard"
             THEN /\ buffer' = HeapPop(buffer)
                  /\ pc' = [pc EXCEPT ![t] = "d_wST"]
                  /\ UNCHANGED <<ebH, upd, drainPops>>
           ELSE /\ buffer' = HeapPop(buffer)
                /\ upd' = [upd EXCEPT ![t] = HeapPeek(buffer)]
                /\ pc' = [pc EXCEPT ![t] = "d_apply"]
                /\ drainPops' = [drainPops EXCEPT ![t] = Append(@, Update(HeapPeek(buffer)).first_trade_id)]
                /\ UNCHANGED ebH
        /\ state' = IF d = "apply" /\ state = "JustRecovered" THEN "Normal" ELSE state
  /\ snapWin' = IF t = Recovery THEN FALSE ELSE snapWin
  /\ UNCHANGED <<exch, obH, book, resetSince, snap, delivered, wakes,
                 appliedLast, lastApply,
                 sinceSnap, lastRec, pv>>

\* OrderBook::apply_update_locked on the popped update; the book guard
\* drops when it returns, and on Ok the task goes on to reset the timer
DrainApply(t) ==
  /\ pc[t] = "d_apply"
  /\ obH = NoTask
  /\ LET r == ApplyUpdate(book, Update(upd[t]))
     IN /\ book' = r.book
        /\ lastApply' = [lastApply EXCEPT ![t] =
                           [k |-> upd[t], pre |-> book.last_applied_id, res |-> r.res]]
        /\ appliedLast' = IF r.book # book THEN Update(upd[t]).last_trade_id
                          ELSE appliedLast
        /\ sinceSnap' = IF r.book # book THEN sinceSnap \cup {upd[t]} ELSE sinceSnap
        /\ pc' = [pc EXCEPT ![t] = IF r.res = "ok" THEN "d_reset" ELSE "d_wST"]
  /\ upd' = [upd EXCEPT ![t] = 0]
  /\ UNCHANGED <<exch, ebH, obH, stH, buffer, state, resetSince, snap,
                 delivered, wakes, snapWin, drainPops, lastRec, pv>>

\* timeout_state.reset() after a successful apply_update_locked
DrainReset(t) ==
  /\ pc[t] = "d_reset"
  /\ resetSince' = TRUE
  /\ pc' = [pc EXCEPT ![t] = "d_wST"]
  /\ UNCHANGED <<exch, upd, ebH, obH, stH, buffer, book, state, snap,
                 delivered, wakes, snapWin, appliedLast, lastApply,
                 sinceSnap, drainPops, lastRec, pv>>

\* monitor_and_recover: initial check of state.read() == JustStarted
MonitorStart ==
  /\ pc[Recovery] = "m_start"
  /\ stH = NoTask
  /\ pc' = [pc EXCEPT ![Recovery] = IF state = "JustStarted" THEN "r_wST1" ELSE "m_sleep"]
  /\ resetSince' = IF state = "JustStarted" THEN resetSince ELSE FALSE
  /\ UNCHANGED <<exch, upd, ebH, obH, stH, buffer, book, state, snap,
                 delivered, wakes, snapWin, appliedLast, lastApply,
                 sinceSnap, drainPops, lastRec, pv>>

\* monitor_and_recover loop: sleep(timeout_duration), then is_timed_out(),
\* i.e. last_activity.elapsed() >= timeout_duration. With no reset during
\* the sleep it is timed out; after a reset it is timed out or not, since
\* the wake comes late by an unbounded delay and the reset may lie within
\* that delay of the sleep's start (MaxWakes bounds the recoveries the
\* watchdog starts)
MonitorWake ==
  /\ pc[Recovery] = "m_sleep"
  /\ \E timedOut \in (IF resetSince THEN BOOLEAN ELSE {TRUE}) :
       /\ timedOut => wakes < MaxWakes
       /\ wakes' = IF timedOut THEN wakes + 1 ELSE wakes
       /\ pc' = [pc EXCEPT ![Recovery] = IF timedOut THEN "r_wST1" ELSE "m_sleep"]
  /\ resetSince' = FALSE
  /\ UNCHANGED <<exch, upd, ebH, obH, stH, buffer, book, state, snap,
                 delivered, snapWin, appliedLast, lastApply,
                 sinceSnap, drainPops, lastRec, pv>>

\* recover_order_book: state := Recovering
RecoverBegin ==
  /\ pc[Recovery] = "r_wST1"
  /\ stH = NoTask
  /\ state' = "Recovering"
  /\ pc' = [pc EXCEPT ![Recovery] = "r_fetch"]
  /\ UNCHANGED <<exch, upd, ebH, obH, stH, buffer, book, resetSince, snap,
                 delivered, wakes, snapWin, appliedLast, lastApply,
                 sinceSnap, drainPops, lastRec, pv>>

\* fetch_snapshot: the exchange serves its book at its current sequence id,
\* possibly with a zero-qty line, possibly with a line whose price or qty is
\* no decimal number (still valid JSON), or the request / JSON parse fails
FetchSnapshot ==
  /\ pc[Recovery] = "r_fetch"
  /\ \/ /\ \E z \in BOOLEAN :
          \E j \in 0..(Len(Snapshot(exch, z).bids) + Len(Snapshot(exch, z).asks)) :
             /\ snap' = MalformedSnapshot(exch, z, j)
             /\ lastRec' = IF j = 0 THEN "ok" ELSE "malformed"
        /\ pc' = [pc EXCEPT ![Recovery] = "r_wOB"]
     \/ /\ pc' = [pc EXCEPT ![Recovery] = "r_wSTfail"]
        /\ lastRec' = "fail"
        /\ UNCHANGED snap
  /\ UNCHANGED <<exch, upd, ebH, obH, stH, buffer, book, state, resetSince,
                 delivered, wakes, snapWin, appliedLast, lastApply,
                 sinceSnap, drainPops, pv>>

\* apply_snapshot_locked: order_book.write(), apply_snapshot; on a malformed
\* line parse().unwrap() panics, the monitor task ends (join_all keeps the
\* other tasks running) and the book guard drops during unwinding
SnapshotApplyBook ==
  /\ pc[Recovery] = "r_wOB"
  /\ obH = NoTask
  /\ IF snap.bad = 0
       THEN /\ obH' = Recovery
            /\ book' = ApplySnapshot(book, snap)
            /\ snapWin' = TRUE
            /\ pc' = [pc EXCEPT ![Recovery] = "r_wST2"]
       ELSE /\ obH' = NoTask
            /\ book' = ApplySnapshotUntilPanic(book, snap)
            /\ snapWin' = FALSE
            /\ pc' = [pc EXCEPT ![Recovery] = "dead"]
  /\ sinceSnap' = {}
  /\ UNCHANGED <<exch, upd, ebH, stH, buffer, state, resetSince, snap,
                 delivered, wakes, appliedLast, lastApply,
                 drainPops, lastRec, pv>>

\* apply_snapshot_locked: state.write() under the book guard, JustRecovered;
\* both guards drop when it returns
SnapshotSetState ==
  /\ pc[Recovery] = "r_wST2"
  /\ stH = NoTask
  /\ state' = "JustRecovered"
  /\ obH' = NoTask
  /\ pc' = [pc EXCEPT ![Recovery] = "r_reset"]
  /\ UNCHANGED <<exch, upd, ebH, stH, buffer, book, resetSince, snap,
                 delivered, wakes, snapWin, appliedLast, lastApply,
                 sinceSnap, drainPops, lastRec, pv>>

\* recover_order_book: timeout_state.reset() after apply_snapshot_locked
SnapshotReset ==
  /\ pc[Recovery] = "r_reset"
  /\ resetSince' = TRUE
  /\ pc' = [pc EXCEPT ![Recovery] = "r_wEB"]
  /\ UNCHANGED <<exch, upd, ebH, obH, stH, buffer, book, state, snap,
                 delivered, wakes, snapWin, appliedLast, lastApply,
                 sinceSnap, drainPops, lastRec, pv>>

\* recover_order_book: event_buffer.write(), then process_buffered_updates
RecoverLockBuffer ==
  /\ pc[Recovery] = "r_wEB"
  /\ ebH = NoTask
  /\ ebH' = Recovery
  /\ pc' = [pc EXCEPT ![Recovery] = "d_wST"]
  /\ drainPops' = [drainPops EXCEPT ![Recovery] = <<>>]
  /\ UNCHANGED <<exch, upd, obH, stH, buffer, book, state, resetSince, snap,
                 delivered, wakes, snapWin, appliedLast, lastApply,
                 sinceSnap, lastRec, pv>>

\* recover_order_book: state := JustRecovered after the drain
RecoverEnd ==
  /\ pc[Recovery] = "r_wST3"
  /\ stH = NoTask
  /\ state' = "JustRecovered"
  /\ pc' = [pc EXCEPT ![Recovery] = "m_sleep"]
  /\ resetSince' = FALSE
  /\ UNCHANGED <<exch, upd, ebH, obH, stH, buffer, book, snap, delivered,
                 wakes, snapWin, appliedLast, lastApply,
                 sinceSnap, drainPops, lastRec, pv>>

RecoverFailKeepState ==
  /\ pc[Recovery] = "r_wSTfail"
  /\ stH = NoTask
  /\ pc' = [pc EXCEPT ![Recovery] = "m_sleep"]
  /\ resetSince' = FALSE
  /\ UNCHANGED <<exch, upd, ebH, obH, stH, buffer, book, state, snap, delivered,
                 wakes, snapWin, appliedLast, lastApply,
                 sinceSnap, drainPops, lastRec, pv>>

\* recover_order_book: fetch failed, state := Normal
RecoverFail ==
  /\ pc[Recovery] = "r_wSTfail"
  /\ stH = NoTask
  /\ state' = "Normal"
  /\ pc' = [pc EXCEPT ![Recovery] = "m_sleep"]
  /\ resetSince' = FALSE
  /\ UNCHANGED <<exch, upd, ebH, obH, stH, buffer, book, snap, delivered,
                 wakes, snapWin, appliedLast, lastApply,
                 sinceSnap, drainPops, lastRec, pv>>

Next ==
  \/ Produce
  \/ \E i \in Ingestors : Deliver(i) \/ BufferUpdate(i)
  \/ \E t \in Tasks : DrainLockState(t) \/ DrainStep(t) \/ DrainApply(t)
                     \/ DrainReset(t)
  \/ MonitorStart
  \/ MonitorWake
  \/ RecoverBegin
  \/ FetchSnapshot
  \/ SnapshotApplyBook
  \/ SnapshotSetState
  \/ SnapshotReset
  \/ RecoverLockBuffer
  \/ RecoverEnd
  \/ RecoverFail

Spec == Init /\ [][Next]_vars

\* tokio runs every ready task, and its RwLock queues waiters in FIFO order,
\* so a task that is repeatedly able to take its lock eventually takes it
IngestorStep(i) ==
  \/ BufferUpdate(i) \/ DrainLockState(i) \/ DrainStep(i) \/ DrainApply(i)
  \/ DrainReset(i)

MonitorStep ==
  \/ MonitorStart \/ MonitorWake \/ RecoverBegin \/ FetchSnapshot
  \/ SnapshotApplyBook \/ SnapshotSetState \/ SnapshotReset \/ RecoverLockBuffer
  \/ DrainLockState(Recovery) \/ DrainStep(Recovery) \/ DrainApply(Recovery)
  \/ DrainReset(Recovery)
  \/ RecoverEnd \/ RecoverFail

SpecFair ==
  /\ Spec
  /\ \A i \in Ingestors : SF_vars(IngestorStep(i))
  /\ SF_vars(MonitorStep)

\* ------------------------------------------- apply_update on its own
\* books and events over a few prices and ids; an event may carry two bid
\* lines, also for the same price
PPrices == {1, 2}
PureMaps == UNION {[S -> {1}] : S \in SUBSET PPrices}
PureBooks == [bids : PureMaps, asks : PureMaps, last_applied_id : 0..PMaxId]
PureLines == {<<>>} \cup {<<<<p, q>>>> : p \in PPrices, q \in 0..2}
PureBidLines == PureLines \cup {<<<<p, q>>, <<p2, q2>>>> : p, p2 \in PPrices, q, q2 \in 0..2}
PureUpdates ==
  {u \in [first_trade_id : 1..(PMaxId + 1), last_trade_id : 1..(PMaxId + 1),
          bids : PureBidLines, asks : PureLines] :
     u.first_trade_id <= u.last_trade_id}

NotCalled == [book |-> NewBook, res |-> "none", width |-> 0]

InitApply == InitSys /\ pv \in [pre : PureBooks, u : PureUpdates, r : {NotCalled}]

\* one call of OrderBook::apply_update
ApplyOnce ==
  /\ pv.r = NotCalled
  /\ pv' = [pv EXCEPT !.r = ApplyUpdate(pv.pre, pv.u)]
  /\ UNCHANGED <<exch, pc, upd, ebH, obH, stH, buffer, book, state, resetSince,
                 snap, delivered, wakes, snapWin, appliedLast, lastApply,
                 sinceSnap, drainPops, lastRec>>

SpecApply == InitApply /\ [][ApplyOnce]_vars

\* ------------------------------------ ingest calls one after the other
\* process_buffered_updates run to its end with no other task interleaved
RECURSIVE DrainAll(_, _, _)
DrainAll(st, b, bf) ==
  LET d == DrainDecision(st, b, bf)
  IN IF d = "stop" THEN [state |-> st, book |-> b, buffer |-> bf]
     ELSE IF d = "discard" THEN DrainAll(st, b, HeapPop(bf))
     ELSE DrainAll(IF st = "JustRecovered" THEN "Normal" ELSE st,
                   ApplyUpdate(b, Update(HeapPeek(bf))).book,
                   HeapPop(bf))

\* buffer_and_process_update: push, then drain
Ingest(x, k) == DrainAll(x.state, x.book, [x.buffer EXCEPT ![k] = @ + 1])

\* run A ingests every event it is given; run B gets the same events with
\* every repeated one left out
InitDup ==
  /\ InitSys
  /\ \E n \in 0..MaxSeq, st \in {"JustRecovered", "Normal"} :
       LET x == [state |-> st, book |-> RefBook(n), buffer |-> [k \in UpdateIds |-> 0]]
       IN pv = [A |-> x, B |-> x, seen |-> {}, n |-> 0]

\* one handle_update call in both runs
IngestBoth ==
  /\ pv.n < MaxIngests
  /\ \E k \in UpdateIds :
       pv' = [A |-> Ingest(pv.A, k),
              B |-> IF k \in pv.seen THEN pv.B ELSE Ingest(pv.B, k),
              seen |-> pv.seen \cup {k}, n |-> pv.n + 1]
  /\ UNCHANGED <<exch, pc, upd, ebH, obH, stH, buffer, book, state, resetSince,
                 snap, delivered, wakes, snapWin, appliedLast, lastApply,
                 sinceSnap, drainPops, lastRec>>

SpecDup == InitDup /\ [][IngestBoth]_vars

\* ------------------------------------- a consistent feed over few prices
\* The exchange's book moves between uncrossed books over FNumPrices prices
\* (a price may switch sides); each depth event carries, per side, the new
\* qty (0 when removed) of every level that changed, and one consumer book
\* follows it through apply_update and apply_snapshot.
FNumPrices == 3
FMaxSeq == 3
FPrices == 1..FNumPrices
FMaps == UNION {[S -> {1}] : S \in SUBSET FPrices}
FBooks == {m \in [bids : FMaps, asks : FMaps] : DOMAIN m.bids \cap DOMAIN m.asks = {}}
FEmpty == [bids |-> EmptyMap, asks |-> EmptyMap]

\* the diff lines of one side, in price order
SideDiff(o, n) ==
  LET ps == {p \in DOMAIN o \cup DOMAIN n :
               p \notin DOMAIN o \/ p \notin DOMAIN n \/ o[p] # n[p]}
  IN MapPairs([p \in ps |-> IF p \in DOMAIN n THEN n[p] ELSE 0])

\* OrderBookUpdate for sequence id i taking the exchange from book o to nb
FeedEvent(o, nb, i) ==
  [first_trade_id |-> i, last_trade_id |-> i,
   bids |-> SideDiff(o.bids, nb.bids), asks |-> SideDiff(o.asks, nb.asks)]

\* Snapshot of the exchange's book ex at sequence n, possibly followed by a
\* zero-qty bid line at a price z with no bid (z = 0: no such line)
FeedSnapshot(ex, n, z) ==
  [last_update_id |-> n,
   bids |-> MapPairs(ex.bids) \o (IF z = 0 THEN <<>> ELSE <<<<z, 0>>>>),
   asks |-> MapPairs(ex.asks)]

\* some price moves from the bid side of o to the ask side of nb
Switched(o, nb) == \E p \in FPrices : p \in DOMAIN o.bids /\ p \in DOMAIN nb.asks

InitFeed ==
  /\ InitSys
  /\ pv = [ex |-> FEmpty, sw |-> FALSE, n |-> 0, cb |-> NewBook, ev |-> "none"]

\* the exchange moves and the consumer applies the event with apply_update
FeedUpdate ==
  /\ pv.n < FMaxSeq
  /\ \E nb \in FBooks :
       pv' = [ex |-> nb, sw |-> Switched(pv.ex, nb), n |-> pv.n + 1,
              cb |-> ApplyUpdate(pv.cb, FeedEvent(pv.ex, nb, pv.n + 1)).book,
              ev |-> "update"]
  /\ UNCHANGED <<exch, pc, upd, ebH, obH, stH, buffer, book, state, resetSince,
                 snap, delivered, wakes, snapWin, appliedLast, lastApply,
                 sinceSnap, drainPops, lastRec>>

\* the exchange moves and the consumer never receives the event
FeedMiss ==
  /\ pv.n < FMaxSeq
  /\ \E nb \in FBooks :
       pv' = [pv EXCEPT !.ex = nb, !.sw = Switched(pv.ex, nb), !.n = pv.n + 1,
                        !.ev = "missed"]
  /\ UNCHANGED <<exch, pc, upd, ebH, obH, stH, buffer, book, state, resetSince,
                 snap, delivered, wakes, snapWin, appliedLast, lastApply,
                 sinceSnap, drainPops, lastRec>>

\* the consumer applies a snapshot of the exchange's current book
FeedResync ==
  /\ pv.ev # "snapshot"
  /\ \E z \in {0} \cup (FPrices \ DOMAIN pv.ex.bids) :
       pv' = [pv EXCEPT !.cb = ApplySnapshot(pv.cb, FeedSnapshot(pv.ex, pv.n, z)),
                        !.ev = "snapshot"]
  /\ UNCHANGED <<exch, pc, upd, ebH, obH, stH, buffer, book, state, resetSince,
                 snap, delivered, wakes, snapWin, appliedLast, lastApply,
                 sinceSnap, drainPops, lastRec>>

NextFeed == FeedUpdate \/ FeedMiss \/ FeedResync

SpecFeed == InitFeed /\ [][NextFeed]_vars

TypeOK ==
  /\ state \in States
  /\ ebH \in Tasks \cup {NoTask}

\* ---------------------------------------------------------------- claims

\* the lock a task is blocked on at its current position
WantLock(t) ==
  CASE pc[t] \in {"wEB", "r_wEB"} -> "eb"
    [] pc[t] \in {"d_wOB", "d_apply", "r_wOB"} -> "ob"
    [] pc[t] \in {"d_wST", "r_wST1", "r_wST2", "r_wST3", "r_wSTfail", "m_start"} -> "st"
    [] OTHER -> "none"
Holder(l) == CASE l = "eb" -> ebH [] l = "ob" -> obH [] l = "st" -> stH [] OTHER -> NoTask

\* a set of tasks each blocked on a lock held by a task of the set
Deadlocked ==
  \E S \in SUBSET Tasks :
    /\ S # {}
    /\ \A t \in S : WantLock(t) # "none" /\ Holder(WantLock(t)) \in S

\* a step of task t completing apply_update_locked on its popped event
ApplyStepOf(t) == pc[t] = "d_apply" /\ pc'[t] # pc[t]

\* C1: no reachable state has tasks waiting on each other's locks; in
\* particular a drain holding buffer and state never waits on the book held
\* by apply_snapshot_locked while that waits on the state.
C1_NoDeadlock == ~Deadlocked

\* C2: while the state is Recovering or JustStarted, no apply_update changes
\* the book (levels or last_applied_id).
C2_NoApplyWhileRecovering ==
  [][\A t \in Tasks :
       (ApplyStepOf(t) /\ state \in {"Recovering", "JustStarted"}) => book' = book]_vars

\* C3: between apply_snapshot and the recovery task's first drain iteration
\* no other task changes the book or removes a buffer entry.
C3_SnapshotDrainAtomic ==
  [][(snapWin /\ pc'[Recovery] = pc[Recovery]) =>
       (book' = book /\ \A k \in UpdateIds : buffer'[k] >= buffer[k])]_vars

\* C4: last_applied_id never decreases from one state to the next.
C4_Monotonic == [][book'.last_applied_id >= book.last_applied_id]_vars

\* C5: the book always equals the reference book: the exchange's book after
\* applying every id up to last_applied_id exactly once, in order.
C5_ExactlyOnce == book = RefBook(book.last_applied_id)

\* C6: every apply_update that changes the book has a larger last_trade_id
\* than the previous one that changed it, across recoveries too.
C6_StrictOrder ==
  [][\A t \in Tasks :
       (ApplyStepOf(t) /\ book' # book) => Update(upd[t]).last_trade_id > appliedLast]_vars

\* C7: a buffer entry is removed without being applied only if
\* last_trade_id <= last_applied_id at removal, and no popped event is
\* dropped by a GapError.
C7_NoLiveDiscard ==
  [][\A t \in Tasks :
       /\ (pc[t] = "d_wOB" /\ pc'[t] = "d_wST" /\ buffer' # buffer)
            => Update(HeapPeek(buffer)).last_trade_id <= book.last_applied_id
       /\ ApplyStepOf(t) => lastApply'[t].res # "gap"]_vars

\* C8: once Normal, the state stays Normal until the next recovery sets
\* Recovering (a recovery's drain leaves it Normal, not JustRecovered).
C8_StaysNormal == [][state = "Normal" => state' \in {"Normal", "Recovering"}]_vars

\* C9: every stored quantity on either side is strictly positive.
C9_PositiveQty ==
  /\ \A p \in DOMAIN book.bids : book.bids[p] > 0
  /\ \A p \in DOMAIN book.asks : book.asks[p] > 0

\* C10: apply_update of an event with last_trade_id <= last_applied_id
\* returns Ok and leaves bids, asks and last_applied_id unchanged.
C10_StaleIdempotent ==
  [][\A t \in Tasks :
       (ApplyStepOf(t) /\ Update(upd[t]).last_trade_id <= book.last_applied_id)
         => (book' = book /\ lastApply'[t].res = "ok")]_vars

\* a drain applied an event already covered by the book (here: one popped
\* before a snapshot that covers it)
C10_Witness ==
  \E t \in Tasks : /\ lastApply[t].k # 0
                   /\ LastId(lastApply[t].k) < lastApply[t].pre
                   /\ lastApply[t].res = "ok"

\* C11: apply_update of an event with first_trade_id > last_applied_id + 1
\* (and last_trade_id > last_applied_id) returns an error carrying the gap
\* (first_trade_id - last_applied_id) and leaves bids, asks and
\* last_applied_id unchanged.
GapCase == /\ pv.u.last_trade_id > pv.pre.last_applied_id
           /\ pv.u.first_trade_id > pv.pre.last_applied_id + 1
C11_GapDetected ==
  (pv.r # NotCalled /\ GapCase) =>
     /\ pv.r.res = "gap"
     /\ pv.r.width = pv.u.first_trade_id - pv.pre.last_applied_id
     /\ pv.r.book = pv.pre

C11_Witness == pv.r # NotCalled /\ GapCase /\ pv.u.first_trade_id > pv.pre.last_applied_id + 2

\* the last quantity an event's lines give to price p
LastQty(pairs, p) ==
  pairs[CHOOSE j \in DOMAIN pairs :
          pairs[j][1] = p /\ \A j2 \in DOMAIN pairs : pairs[j2][1] = p => j2 <= j][2]
PricesOf(pairs) == {pairs[j][1] : j \in DOMAIN pairs}
\* one side after an event, level by level: untouched levels stay, touched
\* ones take the event's last quantity and disappear when it is 0
ExpectSide(m, pairs) ==
  LET keep == {p \in DOMAIN m : p \notin PricesOf(pairs)}
      set == {p \in PricesOf(pairs) : LastQty(pairs, p) # 0}
  IN [p \in keep \cup set |-> IF p \in set THEN LastQty(pairs, p) ELSE m[p]]
\* the eligibility test of the JustRecovered branch: first <= cursor+1 <= last
InRange(u, b) ==
  u.first_trade_id <= b.last_applied_id + 1 /\ b.last_applied_id + 1 <= u.last_trade_id

HeadIsPredecessor ==
  /\ ~HeapEmpty(buffer)
  /\ LastId(HeapPeek(buffer)) > book.last_applied_id
  /\ \E k \in UpdateIds : /\ buffer[k] > 0
                          /\ FirstId(k) > book.last_applied_id + 1
                          /\ FirstId(k) = LastId(HeapPeek(buffer)) + 1

C13_Witness == \E t \in Tasks : Len(drainPops[t]) >= 2

\* C14: ingesting the same event several times, interleaved with other
\* ingests, leaves the book (levels and last_applied_id) as ingesting it once.
C14_DuplicateTolerance == pv.A.book = pv.B.book

\* an event was ingested more than once and every event got applied
C14_Witness ==
  /\ pv.n > Cardinality(pv.seen)
  /\ pv.A.book.last_applied_id = MaxSeq
  /\ pv.A.state = "Normal"

\* C15: when the snapshot fetch or its parsing fails (a malformed line
\* included), recover_order_book leaves the book unchanged, sets the state
\* to Normal and returns to the monitor, and the monitor's next wake after a
\* sleep with no timer reset starts a recovery.
C15_FetchFailure ==
  [][/\ (pc[Recovery] = "r_fetch" /\ pc'[Recovery] = "r_wSTfail") => book' = book
     /\ (pc[Recovery] = "r_wOB" /\ snap.bad # 0 /\ pc'[Recovery] # pc[Recovery]) =>
           /\ book' = book
           /\ pc'[Recovery] = "r_wSTfail"
     /\ (pc[Recovery] = "r_wSTfail" /\ pc'[Recovery] # pc[Recovery]) =>
           /\ state' = "Normal"
           /\ book' = book
           /\ pc'[Recovery] = "m_sleep"
     /\ (pc[Recovery] = "m_sleep" /\ lastRec = "fail" /\ ~resetSince
         /\ pc'[Recovery] # pc[Recovery]) => pc'[Recovery] = "r_wST1"]_vars

\* a retry is under way after a failed fetch
C15_Witness == lastRec = "fail" /\ pc[Recovery] = "r_fetch" /\ wakes >= 1

\* the buffer's head is a future event: the drain cannot proceed
HeadFuture == ~HeapEmpty(buffer) /\ FirstId(HeapPeek(buffer)) > book.last_applied_id + 1

\* C16: the monitor starts a recovery at startup, and while the watchdog
\* still may start recoveries, a gap at the buffer's head is eventually
\* followed by the monitor invoking recover_order_book (or by the gap closing).
C16_WatchdogLiveness ==
  /\ <>(pc[Recovery] = "r_wST1")
  /\ (HeadFuture /\ wakes < MaxWakes) ~> (pc[Recovery] = "r_wST1" \/ ~HeadFuture)

\* C17: recover_order_book runs only on the monitor task, one invocation at
\* a time; whenever no invocation is in progress (before the startup check,
\* while sleeping, or entering a new invocation) the state is not Recovering,
\* so no invocation ever starts while another one holds the state Recovering.
C17_SerializedEntry ==
  pc[Recovery] \in {"m_start", "m_sleep", "r_wST1"} => state # "Recovering"

\* a second invocation is entering after an earlier one completed
C17_Witness == pc[Recovery] = "r_wST1" /\ wakes >= 1 /\ lastRec # "none"

\* C18: the state changes only in recover_order_book (Recovering on entry,
\* JustRecovered after the snapshot and after the drain, Normal on a failed
\* fetch) or in a drain iteration on the JustRecovered -> Normal edge; no
\* other step writes it, and the drain sets Normal only from JustRecovered.
C18_StateWriters ==
  [][state' # state =>
       \/ \E t \in Tasks : /\ pc[t] = "d_wOB" /\ pc'[t] # pc[t]
                          /\ state = "JustRecovered" /\ state' = "Normal"
       \/ /\ pc[Recovery] \in {"r_wST1", "r_wST2", "r_wST3", "r_wSTfail"}
          /\ pc'[Recovery] # pc[Recovery]
          /\ state' = "Recovering" <=> pc[Recovery] = "r_wST1"
          /\ state' = "Normal" <=> pc[Recovery] = "r_wSTfail"]_vars

\* a drain has moved a successful recovery's JustRecovered state to Normal
C18_Witness == state = "Normal" /\ lastRec = "ok"

\* the buffer, still write-locked by the draining task since its pop, holds
\* an event ordered before the one task t popped
HeapOrderViolatedAt(t) == \E k \in UpdateIds : buffer[k] > 0 /\ k < upd[t]

\* C19: when apply_update returns GapError on an update popped by the drain,
\* the update is dropped (the buffer and the book are unchanged) and the
\* timer is not reset, and this happens only if the heap order was violated.
C19_GapOnlyOnHeapViolation ==
  [][\A t \in Tasks :
       (ApplyStepOf(t) /\ lastApply'[t].res = "gap") =>
          /\ UNCHANGED <<buffer, book, resetSince>>
          /\ HeapOrderViolatedAt(t)]_vars

\* C20: a drain iteration that finds the buffer empty, or its head a future
\* update (first_id > cursor + 1), ends the drain leaving the buffer, the
\* book, the state and the timer unchanged.
C20_DrainNoOp ==
  [][\A t \in Tasks :
       (/\ pc[t] = "d_wOB" /\ pc'[t] # pc[t]
        /\ (HeapEmpty(buffer) \/ HeadFuture)) =>
          /\ UNCHANGED <<buffer, book, state, resetSince>>
          /\ pc'[t] = AfterDrain(t)]_vars

\* an ingestor's drain has ended on a future head it left in the buffer
C20_Witness ==
  \E i \in Ingestors : /\ pc[i] = "idle" /\ delivered >= 1 /\ ebH = NoTask
                       /\ HeadFuture

\* C21: after every apply_update and apply_snapshot, no price is on both the
\* bid side and the ask side of the book.
C21_NoCrossedLevels == DOMAIN pv.cb.bids \cap DOMAIN pv.cb.asks = {}

\* C22: the timer is reset only after apply_snapshot_locked (SnapshotReset)
\* and by a drain after an apply_update that returned Ok (DrainReset); a
\* drain resets it only when that apply moved last_applied_id forward,
\* never after a stale no-op Ok.
C22_ResetOnlyOnAdvance ==
  [][\A t \in Tasks :
       (pc[t] = "d_reset" /\ pc'[t] # pc[t]) =>
          LastId(lastApply[t].k) > lastApply[t].pre]_vars

\* C23: while the state is JustRecovered, the last successful recovery has
\* applied its snapshot since it set Recovering, and until a drained update
\* changes the book last_applied_id equals that snapshot's last_update_id.
C23_JustRecoveredAtSnapshot ==
  state = "JustRecovered" =>
     /\ lastRec = "ok"
     /\ pc[Recovery] \notin {"r_fetch", "r_wOB", "r_wSTfail"}
     /\ (sinceSnap = {} => book.last_applied_id = snap.last_update_id)

\* a recovery has completed on a non-empty snapshot and no drained update
\* has been applied since
C23_Witness ==
  /\ state = "JustRecovered" /\ pc[Recovery] = "m_sleep"
  /\ sinceSnap = {} /\ snap.last_update_id >= 1

====
